---- MODULE Spec2Model ----
(***************************************************************************)
(* Account provisioning workflow of the auth services:                     *)
(*   src/services/auth/validation.ts  approveAuthRequest (forceContinue)   *)
(*   src/services/auth/approval.ts    approveAuthRequest (commit retry)    *)
(*   src/services/auth/admin/permissions.ts  verifyAdminPermissions        *)
(*   firestore.rules (unnamed/part_009)      isAdmin()                     *)
(* Every admin console is one client with its own auth instance.  A call   *)
(* advances one remote call (one await) per step, so calls of different    *)
(* clients interleave exactly where the code suspends.                     *)
(* Session refresh scheduler:                                              *)
(*   src/services/auth/session/refresh.ts  refreshSession,                 *)
(*                                         setupSessionRefresh             *)
(* One scheduler, its timers and the continuations the event loop runs.    *)
(***************************************************************************)
EXTENDS Integers, Sequences, FiniteSets, TLC

\* ------------------------------------------------------------ bounds
MaxCalls == 2
MaxCycles == 4
MaxLen == 3
MaxSetups == 2
MaxInitCalls == 3
MaxFnCalls == 2

\* ------------------------------------------------- program constants
VERIFY_ATTEMPTS == 3
COMMIT_ATTEMPTS == 5
SESSION_TIMEOUT == 55 * 60 * 1000
REFRESH_THRESHOLD == 5 * 60 * 1000
TOKEN_REFRESH_ATTEMPTS == 3
TOKEN_REFRESH_DELAY == 1000
MAX_RETRIES == 3

Callers == {"c1", "c2"}
Revocable == {"c1"}
Requests == {"r1", "r2"}
NoRequest == "r0"
RequestIds == Requests \cup {NoRequest}
DefaultAdminEmail == "admin@x"
Emails == {DefaultAdminEmail, "new@x"}
Roles == {"team_member", "admin", "regional"}
Gens == {"old", "new"}
Uids == Emails \X Gens
NoUid == <<"none", "none">>
Reviewer(c) == <<c, "reviewer">>
NoDoc == "none"

VARIABLES
  impl,        \* which approveAuthRequest module the deployment exports
  reqEmail,    \* authRequests/{id}.email
  reqRole,     \* authRequests/{id}.role
  status,      \* authRequests/{id}.status
  acct,        \* identity provider: email -> "none" | generation of its account
  users,       \* users/{uid}: NoDoc or the role stored in the document
  sales,       \* salespeople/{uid} exists
  claims,      \* custom claim admin of an identity-provider account
  revAdmin,    \* durable admin status of the reviewer signed in on a client
  currentUser, \* auth.currentUser of each client
  tokenOK,     \* the client's current ID token satisfies the rules' isAdmin()
  call,        \* the call in progress on each client
  result,      \* the ApprovalResult the last call of each client returned
  ncalls,      \* calls started so far
  commits,     \* history: batch commits applied per request
  succeeded    \* history: an approval of the request has returned success

vars == <<impl, reqEmail, reqRole, status, acct, users, sales, claims, revAdmin,
          currentUser, tokenOK, call, result, ncalls, commits, succeeded>>

world == <<status, acct, users, sales, claims>>

VARIABLES
  task,        \* continuations of the scheduler the event loop holds, per slot
  timer,       \* pending timers: NoTimer or the delay and the callback
  timeoutId,   \* setupSessionRefresh's timeoutId (0: never assigned)
  sleeps,      \* delays retry slept between the attempts of the current cycle
  events,      \* what the current cycle did, in order
  lastRefresh, \* session state lastRefresh, as the number of the cycle that set it
  starts,      \* history: refresh cycles started
  oks,         \* history: refresh cycles that succeeded
  fails,       \* history: refresh cycles that failed
  rejected,    \* "none", or the continuation that ended in an uncaught error
  disposed,    \* the disposer has been invoked
  authenticated, \* session state: authenticated
  stored,      \* sessionStorage holds lastTokenRefresh / tokenExpiration
  signedOut    \* history: the session was destroyed by sign-out

svars == <<task, timer, timeoutId, sleeps, events, lastRefresh, starts, oks, fails,
           rejected, disposed, authenticated, stored, signedOut>>

session == <<authenticated, stored, signedOut>>

Slots == {1, 2}
TimerIds == {1, 2, 3}
NoTimer == [delay |-> -1, cb |-> "none"]
FreeTask == [pc |-> "free", attempt |-> 0, cached |-> FALSE]

VARIABLES
  perm,        \* the verifyAdminPermissions call under study and what it met
  exist,       \* two checkExistingUser calls under study and the stores they query
  signin,      \* the signIn call under study
  init,        \* initializeAuthSession: the call in progress and the calls made
  fb,          \* the module state of the Firebase initialization and its flight
  fn           \* cloud functions: custom claims, users documents, invocations

aux == <<perm, exist, signin, init, fb, fn>>

DocRoles == {"missing", "admin", "flag", "team_member"}
\* No verifyAdminPermissions call is under study.
PermIdle ==
  [pc |-> "idle", user |-> "none", online |-> TRUE, cached |-> FALSE,
   claimAdmin |-> FALSE, docRole |-> "missing", tokenAdmin |-> FALSE, calls |-> {},
   ret |-> "none", remoteSaid |-> FALSE, refreshFailed |-> FALSE,
   netTimedOut |-> FALSE, denied |-> FALSE]
ResolverIdle == perm = PermIdle

\* No checkExistingUser call is under study.
NoReport == [exists |-> FALSE, auth |-> FALSE, authUid |-> FALSE, users |-> FALSE,
             sales |-> FALSE]
ExistIdle ==
  [raw |-> <<<<>>, <<>>>>, reg |-> <<>>, hasAuth |-> FALSE, hasUsers |-> FALSE,
   hasSales |-> FALSE, down |-> "none", done |-> <<TRUE, TRUE>>,
   keys |-> <<{}, {}>>, report |-> <<NoReport, NoReport>>]
ExistenceIdle == exist = ExistIdle

\* No signIn call is under study.
SignInOff ==
  [pc |-> "idle", email |-> FALSE, password |-> FALSE, role |-> "none",
   hasProfile |-> FALSE, stamped |-> FALSE, ret |-> "none", redirectPath |-> "none",
   error |-> "none"]
SignInIdle == signin = SignInOff

\* No initializeAuthSession call has been made.
SessionInitIdle == init = [pc |-> "idle", count |-> 0, ret |-> "none"]

\* The Firebase module as loaded: nothing initialized, no flight.
FirebaseIdle ==
  fb = [initialized |-> FALSE, promise |-> FALSE, monitoring |-> FALSE, pc |-> "idle",
        retryCount |-> 0, flights |-> 0, cores |-> 0, current |-> FALSE, calls |-> 0,
        shared |-> 0, atOnce |-> 0, last |-> "none"]

\* No cloud function is invoked.
FnUids == {"u1", "u2"}
FnSlots == {1, 2}
FnFree ==
  [name |-> "none", caller |-> "anon", pc |-> "free", sawAdmin |-> FALSE,
   target |-> "u1", grant |-> FALSE, valid |-> FALSE, ret |-> "none",
   err |-> "none", wrote |-> FALSE, checked |-> FALSE]
FunctionsIdle ==
  fn = [claims |-> [u \in FnUids |-> FALSE], doc |-> [u \in FnUids |-> "missing"],
        call |-> [k \in FnSlots |-> FnFree], n |-> 0]

AuxIdle ==
  /\ ResolverIdle /\ ExistenceIdle /\ SignInIdle /\ SessionInitIdle /\ FirebaseIdle
  /\ FunctionsIdle

\* No session refresh scheduler has been set up.
SchedulerOff ==
  /\ task = [t \in Slots |-> FreeTask]
  /\ timer = [i \in TimerIds |-> NoTimer]
  /\ timeoutId = 0
  /\ sleeps = <<>> /\ events = <<>>
  /\ lastRefresh = 0 /\ starts = 0 /\ oks = 0 /\ fails = 0
  /\ rejected = "none" /\ disposed = FALSE
  /\ authenticated = FALSE /\ stored = FALSE /\ signedOut = FALSE

\* ------------------------------------------------------------ values
Idle ==
  [pc |-> "idle", op |-> "none", rid |-> NoRequest, email |-> DefaultAdminEmail,
   role |-> "regional", force |-> FALSE, phase |-> 0, cAuth |-> FALSE,
   cUid |-> NoUid, authUid |-> NoUid, userId |-> NoUid, tries |-> 0,
   verified |-> FALSE, vLoop |-> FALSE, revokedAtLoop |-> FALSE, wrote |-> FALSE, fault |-> FALSE,
   afterSucc |-> FALSE, sawAuthOnly |-> FALSE, sawBoth |-> FALSE,
   sawPending |-> FALSE]

NoResult == [success |-> FALSE, error |-> "none", existingUser |-> FALSE, userId |-> NoUid]
Ok(uid) == [success |-> TRUE, error |-> "none", existingUser |-> FALSE, userId |-> uid]
Fail(err) == [success |-> FALSE, error |-> err, existingUser |-> FALSE, userId |-> NoUid]
FailExisting(err) == [success |-> FALSE, error |-> err, existingUser |-> TRUE, userId |-> NoUid]

\* ------------------------------------------------------------ stores
UidOf(e) == <<e, acct[e]>>
UserDocs(e) == {u \in Uids : u[1] = e /\ users[u] # NoDoc}
SalesDocs(e) == {u \in Uids : u[1] = e /\ sales[u]}

\* checkUserRecords(email): both profile stores queried by email; the uid is the id
\* of a document found (the users document first).
CheckUserRecords(e) ==
  { [users |-> UserDocs(e) # {}, sales |-> SalesDocs(e) # {}, uid |-> u] :
      u \in (IF UserDocs(e) # {} THEN UserDocs(e)
             ELSE IF SalesDocs(e) # {} THEN SalesDocs(e) ELSE {NoUid}) }

\* firestore.rules isAdmin() for the identity a token is issued to.
EmailOf(id) == id[1]
ClaimAdmin(c, id) ==
  IF id = Reviewer(c) THEN revAdmin[c]
  ELSE EmailOf(id) = DefaultAdminEmail \/ claims[id]

\* verifyAdminPermissions for the client's current user: the privileged email,
\* the remote verifyAdmin answer, then the profile document.
IdentityAdmin(c, id) ==
  IF id = Reviewer(c) THEN revAdmin[c]
  ELSE EmailOf(id) = DefaultAdminEmail \/ claims[id] \/ users[id] = "admin"

\* Every failure inside verifyAdminPermissions (the forced token refresh, the
\* network wait, a read) is caught and answered false.
VerifyAdminPermissions(c) ==
  {[ok |-> IdentityAdmin(c, currentUser[c]), refreshed |-> TRUE, fault |-> FALSE],
   [ok |-> FALSE, refreshed |-> TRUE, fault |-> TRUE],
   [ok |-> FALSE, refreshed |-> FALSE, fault |-> TRUE]}

RefreshToken(c, v) ==
  tokenOK' = IF v.refreshed THEN [tokenOK EXCEPT ![c] = ClaimAdmin(c, currentUser[c])]
             ELSE tokenOK

getExistingUserError(auth, u, s) ==
  IF ~(auth \/ u \/ s) THEN "none"
  ELSE IF u /\ s THEN "exists-full"
  ELSE IF auth /\ ~u /\ ~s THEN "exists-auth"
  ELSE IF u \/ s THEN "exists-partial"
  ELSE "exists-other"

\* ------------------------------------------------------------- Init
\* Profiles and accounts that exist before any call: any combination for the email
\* the listed requests name, nothing for the other.  The listed requests are
\* registrations of one email with one role (a repeated registration).
InitWorld ==
  /\ \E e \in Emails : reqEmail = [r \in RequestIds |-> e]
  /\ \E role \in Roles : reqRole = [r \in RequestIds |-> role]
  /\ status = [r \in Requests |-> "pending"]
  /\ acct \in [Emails -> {"none", "old"}]
  /\ users \in [Uids -> {NoDoc, "team_member"}]
  /\ sales \in [Uids -> BOOLEAN]
  /\ \A u \in Uids : u[2] = "new" => users[u] = NoDoc /\ ~sales[u]
  /\ \A e \in Emails : (\A r \in Requests : reqEmail[r] # e) =>
        acct[e] = "none" /\ UserDocs(e) = {} /\ SalesDocs(e) = {}
  /\ claims = [u \in Uids |-> FALSE]
  /\ revAdmin = [c \in Callers |-> TRUE]
  /\ currentUser = [c \in Callers |-> Reviewer(c)]
  /\ tokenOK = [c \in Callers |-> TRUE]
  /\ call = [c \in Callers |-> Idle]
  /\ result = [c \in Callers |-> NoResult]
  /\ ncalls = 0
  /\ commits = [r \in Requests |-> 0]
  /\ succeeded = [r \in Requests |-> FALSE]
  /\ SchedulerOff
  /\ AuxIdle

\* ------------------------------------------------- call bookkeeping
Return(c) ==
  [call[c] EXCEPT !.pc = "done", !.phase = 0, !.cAuth = FALSE, !.cUid = NoUid,
                  !.authUid = NoUid, !.tries = 0]

\* A remote call that did not answer (network, provider or store error).
Fault(c, res) ==
  /\ call' = [call EXCEPT ![c] = [Return(c) EXCEPT !.fault = TRUE]]
  /\ result' = [result EXCEPT ![c] = res]
  /\ UNCHANGED succeeded

Finish(c, res) ==
  /\ call' = [call EXCEPT ![c] = Return(c)]
  /\ result' = [result EXCEPT ![c] = res]
  /\ succeeded' = IF res.success /\ call[c].op = "approve"
                  THEN [succeeded EXCEPT ![call[c].rid] = TRUE] ELSE succeeded

Goto(c, next) ==
  /\ call' = [call EXCEPT ![c] = next]
  /\ UNCHANGED <<result, succeeded>>

\* handleApprove / handleReject of the request list: the arguments come from the
\* listed request; forceContinue is set after the admin's explicit decision.
Start(c) ==
  /\ UNCHANGED <<svars, aux>>
  /\ call[c].pc \in {"idle", "done"}
  /\ ncalls < MaxCalls
  /\ \E rid \in Requests, op \in {"approve", "reject"},
        force \in (IF impl = "validation" THEN BOOLEAN ELSE {FALSE}) :
       /\ op = "reject" => ~force
       /\ LET e == reqEmail[rid] IN
          call' = [call EXCEPT ![c] = [Idle EXCEPT
                 !.pc = IF op = "reject" THEN "r_load"
                        ELSE IF impl = "validation" THEN "v_verify" ELSE "a_verify",
                 !.op = op, !.rid = rid, !.email = e, !.role = reqRole[rid],
                 !.force = force,
                 !.afterSucc = (rid \in Requests /\ succeeded[rid]),
                 !.sawAuthOnly = (acct[e] # "none" /\ UserDocs(e) = {} /\ SalesDocs(e) = {}),
                 !.sawBoth = (UserDocs(e) # {} /\ SalesDocs(e) # {})]]
  /\ UNCHANGED succeeded
  /\ ncalls' = ncalls + 1
  /\ result' = [result EXCEPT ![c] = NoResult]
  /\ UNCHANGED <<impl, reqEmail, reqRole, world, revAdmin, currentUser, tokenOK, commits>>

\* The reviewer's admin status is withdrawn while calls are in progress.
Revoke(c) ==
  /\ UNCHANGED <<svars, aux>>
  /\ c \in Revocable
  /\ revAdmin[c]
  /\ revAdmin' = [revAdmin EXCEPT ![c] = FALSE]
  /\ UNCHANGED <<impl, reqEmail, reqRole, world, currentUser, tokenOK, call, result,
                 ncalls, commits, succeeded>>

\* ------------------------------------ validation.ts approveAuthRequest
\* verifyAdminPermissions forces a token refresh before it answers.
VVerifyUnchecked(c) ==
  /\ UNCHANGED <<svars, aux>>
  /\ call[c].pc = "v_verify"
  /\ \E v \in VerifyAdminPermissions(c) :
       /\ RefreshToken(c, v)
       /\ Goto(c, [call[c] EXCEPT !.verified = v.ok,
                      !.pc = IF call[c].force THEN "load" ELSE "chk_auth",
                      !.phase = IF call[c].force THEN 2 ELSE 1])
  /\ UNCHANGED <<impl, reqEmail, reqRole, world, revAdmin, currentUser, ncalls, commits>>

VVerify(c) ==
  /\ UNCHANGED <<svars, aux>>
  /\ call[c].pc = "v_verify"
  /\ \E v \in VerifyAdminPermissions(c) :
       /\ RefreshToken(c, v)
       /\ IF v.ok
          THEN Goto(c, [call[c] EXCEPT !.verified = TRUE,
                          !.pc = IF call[c].force THEN "load" ELSE "chk_auth",
                          !.phase = IF call[c].force THEN 2 ELSE 1])
          ELSE IF v.fault THEN Fault(c, Fail("permission"))
          ELSE Finish(c, Fail("permission"))
  /\ UNCHANGED <<impl, reqEmail, reqRole, world, revAdmin, currentUser, ncalls, commits>>

\* checkAuthAccount, first half: fetchSignInMethodsForEmail.  An error of the
\* lookup is answered {exists: false, uid: null}.
CheckAuth(c) ==
  /\ UNCHANGED <<svars, aux>>
  /\ call[c].pc = "chk_auth"
  /\ \E answered \in BOOLEAN :
       LET exists == answered /\ acct[call[c].email] # "none" IN
       Goto(c, [call[c] EXCEPT !.cAuth = exists, !.cUid = NoUid,
                  !.fault = @ \/ ~answered,
                  !.pc = IF exists THEN "chk_uid" ELSE "chk_rec"])
  /\ UNCHANGED <<impl, reqEmail, reqRole, world, revAdmin, currentUser, tokenOK,
                 ncalls, commits>>

\* checkAuthAccount, second half: the uid comes from the profile stores;
\* permission-denied keeps exists, any other error answers exists: false.
CheckUidOutcomes(e) ==
  {[auth |-> TRUE, uid |-> r.uid, fault |-> FALSE] : r \in CheckUserRecords(e)}
    \cup {[auth |-> TRUE, uid |-> NoUid, fault |-> TRUE],
          [auth |-> FALSE, uid |-> NoUid, fault |-> TRUE]}

CheckUid(c) ==
  /\ UNCHANGED <<svars, aux>>
  /\ call[c].pc = "chk_uid"
  /\ \E o \in CheckUidOutcomes(call[c].email) :
       Goto(c, [call[c] EXCEPT !.cAuth = o.auth, !.cUid = o.uid,
                  !.fault = @ \/ o.fault, !.pc = "chk_rec"])
  /\ UNCHANGED <<impl, reqEmail, reqRole, world, revAdmin, currentUser, tokenOK,
                 ncalls, commits>>

\* checkExistingUser: the report; an error of the lookup answers "nothing exists".
CheckExistingUser(c) ==
  {[auth |-> call[c].cAuth, authUid |-> call[c].cUid, users |-> r.users,
    sales |-> r.sales, fault |-> FALSE] : r \in CheckUserRecords(call[c].email)}
    \cup {[auth |-> FALSE, authUid |-> NoUid, users |-> FALSE, sales |-> FALSE,
           fault |-> TRUE]}

Exists(d) == d.auth \/ d.users \/ d.sales

\* The first check (forceContinue unset) and the final check before mutation.
AfterCheck(c, d) ==
  IF call[c].phase = 1
  THEN LET err == getExistingUserError(d.auth, d.users, d.sales) IN
       IF err # "none" THEN Finish(c, FailExisting(err))
       ELSE Goto(c, [call[c] EXCEPT !.pc = "load", !.phase = 2, !.fault = @ \/ d.fault])
  ELSE IF Exists(d) /\ ~(d.auth /\ ~d.users /\ ~d.sales /\ call[c].force)
                    /\ ~call[c].force
       THEN Finish(c, FailExisting(IF d.users \/ d.sales THEN "exists-full"
                                   ELSE IF d.auth THEN "exists-auth"
                                   ELSE "exists-other"))
       ELSE Goto(c, [call[c] EXCEPT !.pc = "v_create", !.authUid = d.authUid,
                       !.fault = @ \/ d.fault])

CheckRec(c) ==
  /\ UNCHANGED <<svars, aux>>
  /\ call[c].pc = "chk_rec"
  /\ \E d \in CheckExistingUser(c) : AfterCheck(c, d)
  /\ UNCHANGED <<impl, reqEmail, reqRole, world, revAdmin, currentUser, tokenOK,
                 ncalls, commits>>

\* getDoc(authRequests/{id}) and the status guard (both modules).
Load(c) ==
  /\ UNCHANGED <<svars, aux>>
  /\ call[c].pc = "load"
  /\ \E read \in BOOLEAN :
       IF ~read THEN Fault(c, Fail("error"))
       ELSE IF call[c].rid = NoRequest THEN Finish(c, Fail("not-found"))
       ELSE IF status[call[c].rid] # "pending" THEN Finish(c, Fail("already-processed"))
       ELSE Goto(c, [call[c] EXCEPT !.sawPending = TRUE,
                       !.pc = IF impl = "validation" THEN "chk_auth" ELSE "a_create"])
  /\ UNCHANGED <<impl, reqEmail, reqRole, world, revAdmin, currentUser, tokenOK,
                 ncalls, commits>>

\* createUserWithEmailAndPassword: the provider creates the account and signs the
\* created user in on the client's auth instance, whose token is from then on the
\* created user's.
NewUid(e) == <<e, "new">>

SignUp(c, e) ==
  /\ acct[e] = "none"
  /\ acct' = [acct EXCEPT ![e] = "new"]
  /\ currentUser' = [currentUser EXCEPT ![c] = NewUid(e)]
  /\ tokenOK' = [tokenOK EXCEPT ![c] = ClaimAdmin(c, NewUid(e))]

\* createUserAccount: reuse the uid the final check found, else create.
VCreate(c) ==
  /\ UNCHANGED <<svars, aux>>
  /\ call[c].pc = "v_create"
  /\ LET e == call[c].email IN
     IF call[c].authUid # NoUid
     THEN /\ Goto(c, [call[c] EXCEPT !.userId = call[c].authUid, !.pc = "v_commit"])
          /\ UNCHANGED <<acct, currentUser, tokenOK>>
     ELSE \E sent \in BOOLEAN :
            IF ~sent
            THEN /\ Fault(c, Fail("error"))
                 /\ UNCHANGED <<acct, currentUser, tokenOK>>
            ELSE IF acct[e] = "none"
            THEN /\ SignUp(c, e)
                 /\ Goto(c, [call[c] EXCEPT !.userId = NewUid(e),
                               !.wrote = TRUE, !.pc = "v_commit"])
            ELSE /\ Goto(c, [call[c] EXCEPT !.pc = "v_methods"])
                 /\ UNCHANGED <<acct, currentUser, tokenOK>>
  /\ UNCHANGED <<impl, reqEmail, reqRole, status, users, sales, claims, revAdmin,
                 ncalls, commits>>

\* auth/email-already-in-use: fetchSignInMethodsForEmail, then the profile stores.
VMethodsStatusFirst(c) ==
  /\ UNCHANGED <<svars, aux>>
  /\ call[c].pc = "v_methods"
  /\ \E answered \in BOOLEAN :
       IF ~answered THEN Fault(c, Fail("create-failed"))
       ELSE IF acct[call[c].email] # "none"
       THEN Goto(c, [call[c] EXCEPT !.pc = "v_records"])
       ELSE Finish(c, Fail("create-failed"))
  /\ status' = [status EXCEPT ![call[c].rid] = "approved"]
  /\ UNCHANGED <<impl, reqEmail, reqRole, acct, users, sales, claims, revAdmin,
                 currentUser, tokenOK, ncalls, commits>>

VMethods(c) ==
  /\ UNCHANGED <<svars, aux>>
  /\ call[c].pc = "v_methods"
  /\ \E answered \in BOOLEAN :
       IF ~answered THEN Fault(c, Fail("create-failed"))
       ELSE IF acct[call[c].email] # "none"
       THEN Goto(c, [call[c] EXCEPT !.pc = "v_records"])
       ELSE Finish(c, Fail("create-failed"))
  /\ UNCHANGED <<impl, reqEmail, reqRole, world, revAdmin, currentUser, tokenOK,
                 ncalls, commits>>

VRecords(c) ==
  /\ UNCHANGED <<svars, aux>>
  /\ call[c].pc = "v_records"
  /\ \E answered \in BOOLEAN :
       IF ~answered THEN Fault(c, Fail("create-failed"))
       ELSE \E r \in CheckUserRecords(call[c].email) :
              IF r.uid # NoUid
              THEN Goto(c, [call[c] EXCEPT !.userId = r.uid, !.pc = "v_commit"])
              ELSE Finish(c, Fail("create-failed"))
  /\ UNCHANGED <<impl, reqEmail, reqRole, world, revAdmin, currentUser, tokenOK,
                 ncalls, commits>>

\* batch.commit(): all documents or none; the rules admit the write when the
\* client's token satisfies isAdmin().
BatchWrite(c) ==
  /\ users' = [users EXCEPT ![call[c].userId] = call[c].role]
  /\ sales' = IF call[c].role = "team_member"
              THEN [sales EXCEPT ![call[c].userId] = TRUE] ELSE sales
  /\ status' = [status EXCEPT ![call[c].rid] = "approved"]
  /\ commits' = [commits EXCEPT ![call[c].rid] = @ + 1]

CommitOutcomes(c) == IF tokenOK[c] THEN {"ok", "error"} ELSE {"permission", "error"}

VCommit(c) ==
  /\ UNCHANGED <<svars, aux>>
  /\ call[c].pc = "v_commit"
  /\ \E o \in CommitOutcomes(c) :
       IF o = "ok"
       THEN /\ BatchWrite(c)
            /\ call' = [call EXCEPT ![c] = [Return(c) EXCEPT !.wrote = TRUE]]
            /\ result' = [result EXCEPT ![c] = Ok(call[c].userId)]
            /\ succeeded' = [succeeded EXCEPT ![call[c].rid] = TRUE]
       ELSE /\ IF o = "error" THEN Fault(c, Fail(o)) ELSE Finish(c, Fail(o))
            /\ UNCHANGED <<users, sales, status, commits>>
  /\ UNCHANGED <<impl, reqEmail, reqRole, acct, claims, revAdmin, currentUser, tokenOK,
                 ncalls>>

\* -------------------------------------- approval.ts approveAuthRequest
\* The permission loop: up to VERIFY_ATTEMPTS calls of verifyAdminPermissions.
AVerify(c) ==
  /\ UNCHANGED <<svars, aux>>
  /\ call[c].pc = "a_verify"
  /\ \E v \in VerifyAdminPermissions(c) :
       /\ RefreshToken(c, v)
       /\ IF v.ok
          THEN Goto(c, [call[c] EXCEPT !.verified = TRUE, !.tries = 0, !.pc = "load"])
          ELSE IF call[c].tries + 1 < VERIFY_ATTEMPTS
          THEN Goto(c, [call[c] EXCEPT !.tries = @ + 1, !.fault = @ \/ v.fault])
          ELSE IF v.fault THEN Fault(c, Fail("permission"))
          ELSE Finish(c, Fail("permission"))
  /\ UNCHANGED <<impl, reqEmail, reqRole, world, revAdmin, currentUser, ncalls, commits>>

ACreate(c) ==
  /\ UNCHANGED <<svars, aux>>
  /\ call[c].pc = "a_create"
  /\ LET e == call[c].email IN
     \E sent \in BOOLEAN :
       IF ~sent
       THEN /\ Fault(c, Fail("error"))
            /\ UNCHANGED <<acct, currentUser, tokenOK>>
       ELSE IF acct[e] = "none"
       THEN /\ SignUp(c, e)
            /\ Goto(c, [call[c] EXCEPT !.userId = NewUid(e),
                          !.wrote = TRUE,
                          !.pc = IF call[c].role = "admin" THEN "a_claims" ELSE "a_cverify"])
       ELSE /\ Goto(c, [call[c] EXCEPT !.pc = "a_userdocs"])
            /\ UNCHANGED <<acct, currentUser, tokenOK>>
  /\ UNCHANGED <<impl, reqEmail, reqRole, status, users, sales, claims, revAdmin,
                 ncalls, commits>>

\* auth/email-already-in-use: the users store is queried by email.
AUserDocs(c) ==
  /\ UNCHANGED <<svars, aux>>
  /\ call[c].pc = "a_userdocs"
  /\ \E read \in BOOLEAN :
       IF ~read THEN Fault(c, Fail("error"))
       ELSE IF UserDocs(call[c].email) # {} THEN Finish(c, Fail("active-account"))
       ELSE Goto(c, [call[c] EXCEPT !.pc = "a_methods"])
  /\ UNCHANGED <<impl, reqEmail, reqRole, world, revAdmin, currentUser, tokenOK,
                 ncalls, commits>>

AMethods(c) ==
  /\ UNCHANGED <<svars, aux>>
  /\ call[c].pc = "a_methods"
  /\ \E read \in BOOLEAN :
       IF ~read THEN Fault(c, Fail("error"))
       ELSE IF acct[call[c].email] # "none" THEN Finish(c, FailExisting("none"))
       ELSE Finish(c, Fail("email-registered"))
  /\ UNCHANGED <<impl, reqEmail, reqRole, world, revAdmin, currentUser, tokenOK,
                 ncalls, commits>>

\* setCustomClaims cloud function (functions/src/auth/claims.ts): the caller's own
\* custom claims must carry admin.
CallerHasAdminClaim(c) ==
  IF currentUser[c] = Reviewer(c) THEN revAdmin[c] ELSE claims[currentUser[c]]

\* The names approval.ts imports (lines 1-21).  getFunctions and httpsCallable,
\* which line 190-191 use, are not among them.
ApprovalScope ==
  {"doc", "getDoc", "writeBatch", "serverTimestamp", "collection", "query", "where",
   "getDocs", "createUserWithEmailAndPassword", "fetchSignInMethodsForEmail",
   "FirebaseError", "getAuth", "getDb", "getNetworkStatus", "logOperation",
   "verifyAdminPermissions", "retry"}

\* The outcomes of the claims step: evaluating an unresolved name throws a
\* ReferenceError inside the try of line 189, which is rethrown to the outer catch.
ClaimsOutcomes(c) ==
  IF ~({"getFunctions", "httpsCallable"} \subseteq ApprovalScope) THEN {"reference-error"}
  ELSE IF CallerHasAdminClaim(c) THEN {"set", "set-norefresh", "error"}
  ELSE {"denied", "error"}

\* The claims step with the call accepted: the claim is set for the new uid and
\* the commit loop follows.
AClaimsAccepted(c) ==
  /\ UNCHANGED <<svars, aux>>
  /\ call[c].pc = "a_claims"
  /\ claims' = [claims EXCEPT ![call[c].userId] = TRUE]
  /\ Goto(c, [call[c] EXCEPT !.pc = "a_cverify", !.wrote = TRUE])
  /\ UNCHANGED <<impl, reqEmail, reqRole, status, acct, users, sales, revAdmin,
                 currentUser, tokenOK, ncalls, commits>>

\* role admin: setCustomClaims for the new uid, then a forced token refresh,
\* both before the batch is committed.
AClaims(c) ==
  /\ UNCHANGED <<svars, aux>>
  /\ call[c].pc = "a_claims"
  /\ \E o \in ClaimsOutcomes(c) :
       IF o \in {"reference-error", "denied", "error"}
       THEN /\ IF o = "error" THEN Fault(c, Fail("error")) ELSE Finish(c, Fail("error"))
            /\ UNCHANGED <<claims, tokenOK>>
       ELSE /\ claims' = [claims EXCEPT ![call[c].userId] = TRUE]
            /\ IF o = "set"
               THEN /\ tokenOK' = [tokenOK EXCEPT ![c] =
                                     IF currentUser[c] = Reviewer(c) THEN revAdmin[c]
                                     ELSE EmailOf(currentUser[c]) = DefaultAdminEmail
                                            \/ claims'[currentUser[c]]]
                    /\ Goto(c, [call[c] EXCEPT !.pc = "a_cverify", !.wrote = TRUE])
               ELSE /\ UNCHANGED tokenOK
                    /\ call' = [call EXCEPT ![c] = [Return(c) EXCEPT !.wrote = TRUE,
                                                                      !.fault = TRUE]]
                    /\ result' = [result EXCEPT ![c] = Fail("error")]
                    /\ UNCHANGED succeeded
  /\ UNCHANGED <<impl, reqEmail, reqRole, status, acct, users, sales, revAdmin,
                 currentUser, ncalls, commits>>

\* retry that keeps retrying whatever the number of attempts made.
RetryFailUnbounded(c, err, fault) ==
  \E again \in BOOLEAN :
    IF again
    THEN Goto(c, [call[c] EXCEPT !.tries = @ + 1, !.vLoop = FALSE,
                    !.fault = @ \/ fault, !.pc = "a_cverify"])
    ELSE IF fault THEN Fault(c, Fail(err))
    ELSE Finish(c, Fail(err))

\* retry(operation, {maxAttempts: 5}): a failed attempt is retried while attempts
\* remain, or its error is surfaced as it is.
RetryFail(c, err, fault) ==
  \E again \in BOOLEAN :
    IF again /\ call[c].tries + 1 < COMMIT_ATTEMPTS
    THEN Goto(c, [call[c] EXCEPT !.tries = @ + 1, !.vLoop = FALSE,
                    !.fault = @ \/ fault, !.pc = "a_cverify"])
    ELSE IF fault THEN Fault(c, Fail(err))
    ELSE Finish(c, Fail(err))

\* One attempt of the commit operation: verifyAdminPermissions again ...
ACommitVerify(c) ==
  /\ UNCHANGED <<svars, aux>>
  /\ call[c].pc = "a_cverify"
  /\ \E v \in VerifyAdminPermissions(c) :
       /\ RefreshToken(c, v)
       /\ IF v.ok THEN Goto(c, [call[c] EXCEPT !.vLoop = TRUE, !.pc = "a_commit",
                                   !.revokedAtLoop = ~revAdmin[c]])
          ELSE RetryFail(c, "admin-required", v.fault)
  /\ UNCHANGED <<impl, reqEmail, reqRole, world, revAdmin, currentUser, ncalls, commits>>

\* ... then batch.commit().
ACommit(c) ==
  /\ UNCHANGED <<svars, aux>>
  /\ call[c].pc = "a_commit"
  /\ \E o \in CommitOutcomes(c) :
       IF o = "ok"
       THEN /\ BatchWrite(c)
            /\ call' = [call EXCEPT ![c] = [Return(c) EXCEPT !.wrote = TRUE]]
            /\ result' = [result EXCEPT ![c] = Ok(call[c].userId)]
            /\ succeeded' = [succeeded EXCEPT ![call[c].rid] = TRUE]
       ELSE /\ RetryFail(c, o, o = "error")
            /\ UNCHANGED <<users, sales, status, commits>>
  /\ UNCHANGED <<impl, reqEmail, reqRole, acct, claims, revAdmin, currentUser, tokenOK,
                 ncalls>>

\* The status flip without its guard.
RejectAuthRequestUnguarded(c) ==
  /\ UNCHANGED <<svars, aux>>
  /\ call[c].pc = "r_load"
  /\ \E o \in CommitOutcomes(c) :
       IF o = "ok" THEN
         /\ status' = [status EXCEPT ![call[c].rid] = "rejected"]
         /\ call' = [call EXCEPT ![c] =
                       [Return(c) EXCEPT !.wrote = TRUE, !.sawPending = TRUE]]
         /\ result' = [result EXCEPT ![c] = Ok(NoUid)]
         /\ UNCHANGED succeeded
       ELSE
         /\ IF o = "error" THEN Fault(c, Fail(o)) ELSE Finish(c, Fail(o))
         /\ UNCHANGED status
  /\ UNCHANGED <<impl, reqEmail, reqRole, acct, users, sales, claims, revAdmin,
                 currentUser, tokenOK, ncalls, commits>>

\* --------------------------------------------------- rejectAuthRequest
\* A single-document status flip guarded by the status: it fails as already
\* processed unless the request is pending, and is taken as one step.
RejectAuthRequest(c) ==
  /\ UNCHANGED <<svars, aux>>
  /\ call[c].pc = "r_load"
  /\ \E o \in CommitOutcomes(c) :
       IF call[c].rid = NoRequest THEN
         Finish(c, Fail("not-found")) /\ UNCHANGED status
       ELSE IF status[call[c].rid] # "pending" THEN
         Finish(c, Fail("already-processed")) /\ UNCHANGED status
       ELSE IF o = "ok" THEN
         /\ status' = [status EXCEPT ![call[c].rid] = "rejected"]
         /\ call' = [call EXCEPT ![c] =
                       [Return(c) EXCEPT !.wrote = TRUE, !.sawPending = TRUE]]
         /\ result' = [result EXCEPT ![c] = Ok(NoUid)]
         /\ UNCHANGED succeeded
       ELSE
         /\ IF o = "error" THEN Fault(c, Fail(o)) ELSE Finish(c, Fail(o))
         /\ UNCHANGED status
  /\ UNCHANGED <<impl, reqEmail, reqRole, acct, users, sales, claims, revAdmin,
                 currentUser, tokenOK, ncalls, commits>>

\* ------------------------------------------------------------- Next
Common(c) ==
  \/ Start(c)
  \/ Revoke(c)
  \/ Load(c)
  \/ RejectAuthRequest(c)

Validation(c) ==
  \/ VVerify(c)
  \/ CheckAuth(c)
  \/ CheckUid(c)
  \/ CheckRec(c)
  \/ VCreate(c)
  \/ VMethods(c)
  \/ VRecords(c)
  \/ VCommit(c)

Approval(c) ==
  \/ AVerify(c)
  \/ ACreate(c)
  \/ AUserDocs(c)
  \/ AMethods(c)
  \/ AClaims(c)
  \/ ACommitVerify(c)
  \/ ACommit(c)

\* Either module may be the one a deployment exports; it is fixed per behaviour.
Init == impl \in {"validation", "approval"} /\ InitWorld

Next == \E c \in Callers : Common(c) \/ Validation(c) \/ Approval(c)

Spec == Init /\ [][Next]_vars

\* The deployment that uses approval.ts alone.
InitApproval == impl = "approval" /\ InitWorld

NextApproval == \E c \in Callers : Common(c) \/ Approval(c)

SpecApproval == InitApproval /\ [][NextApproval]_vars

\* A call in progress takes its next step: every remote call it awaits answers or
\* fails, and the waits of lines 67 and of retry are timers.
SpecApprovalFair ==
  /\ SpecApproval
  /\ \A c \in Callers : WF_vars(Load(c) \/ Approval(c) \/ RejectAuthRequest(c))

\* ------------------------------------------- session refresh scheduler
\* Token ages now - issuedAt can take (ms): the issue time is the provider's clock,
\* now is the client's, so a client clock that runs behind gives a negative age.
Minute == 60 * 1000
Ages == {-5 * Minute, 0, 20 * Minute, 50 * Minute, 58 * Minute}
\* Ages right after a forced refresh.
FreshAges == {a \in Ages : a <= 0}

Max(a, b) == IF a >= b THEN a ELSE b
TimeUntilRefresh(tokenAge) == Max(0, SESSION_TIMEOUT - REFRESH_THRESHOLD - tokenAge)

\* retry: the sleep after a failed attempt, initialDelay * 2^(attempt-1).
Backoff(attempt) == TOKEN_REFRESH_DELAY * 2^(attempt - 1)

\* The bindings of refresh.ts: its four constants; it imports no other value.
\* An identifier outside them does not resolve, and reading it throws.
ModuleScope ==
  [SESSION_TIMEOUT |-> SESSION_TIMEOUT, REFRESH_THRESHOLD |-> REFRESH_THRESHOLD,
   TOKEN_REFRESH_ATTEMPTS |-> TOKEN_REFRESH_ATTEMPTS,
   TOKEN_REFRESH_DELAY |-> TOKEN_REFRESH_DELAY]
Resolves(name) == name \in DOMAIN ModuleScope

\* setTimeout returns an id no earlier timer had.
FreshIds == {i \in TimerIds : timer[i] = NoTimer /\ i # timeoutId}
NewTimer == CHOOSE i \in FreshIds : \A j \in FreshIds : i <= j
Armed == {i \in TimerIds : timer[i] # NoTimer}

Inc(n) == IF n < MaxCycles THEN n + 1 ELSE n

\* setTimeout(scheduleNextCheck, REFRESH_RETRY_DELAY): the argument is read first.
RetryTimer == [delay |-> ModuleScope["REFRESH_RETRY_DELAY"], cb |-> "check"]

\* catch of scheduleNextCheck: log, then arm the retry.
CatchCheck ==
  IF Resolves("REFRESH_RETRY_DELAY")
  THEN /\ FreshIds # {}
       /\ timer' = [timer EXCEPT ![NewTimer] = RetryTimer]
       /\ events' = Append(events, "retryArm")
       /\ UNCHANGED rejected
  ELSE /\ rejected' = "check"
       /\ UNCHANGED <<timer, events>>

\* scheduleNextCheck: read the token, compute the delay, arm the refresh timer.
\* Right after a forced refresh the token is served from the cache, just issued.
ScheduleNextCheck(t) ==
  /\ task[t].pc = "check"
  /\ \E answered \in (IF task[t].cached THEN {TRUE} ELSE BOOLEAN) :
       IF answered
       THEN \E tokenAge \in (IF task[t].cached THEN FreshAges ELSE Ages) :
              /\ FreshIds # {}
              /\ timer' = [timer EXCEPT ![NewTimer] =
                             [delay |-> TimeUntilRefresh(tokenAge), cb |-> "refresh"]]
              /\ timeoutId' = NewTimer
              /\ events' = Append(events, "arm")
              /\ UNCHANGED rejected
       ELSE CatchCheck /\ UNCHANGED timeoutId
  /\ task' = [task EXCEPT ![t] = FreeTask]
  /\ UNCHANGED <<sleeps, lastRefresh, starts, oks, fails, disposed, session>>
  /\ UNCHANGED <<vars, aux>>

\* A timer that stays armed when it fires (an interval).
TimerFireInterval(t) ==
  /\ task[t].pc = "free"
  /\ \A u \in Slots : task[u].pc = "free" => t <= u
  /\ \E i \in Armed :
       /\ timer[i].cb = "refresh"
       /\ task' = [task EXCEPT ![t] = [pc |-> "refresh", attempt |-> 1,
                                       cached |-> FALSE]]
       /\ starts' = Inc(starts)
       /\ events' = <<>>
       /\ sleeps' = <<>>
  /\ UNCHANGED <<timer, timeoutId, lastRefresh, oks, fails, rejected, disposed,
                 session>>
  /\ UNCHANGED <<vars, aux>>

\* A pending timer fires: the refresh callback starts a cycle with refreshSession,
\* a retry timer runs scheduleNextCheck.
TimerFire(t) ==
  /\ task[t].pc = "free"
  /\ \A u \in Slots : task[u].pc = "free" => t <= u
  /\ \E i \in Armed :
       /\ timer' = [timer EXCEPT ![i] = NoTimer]
       /\ IF timer[i].cb = "refresh"
          THEN /\ task' = [task EXCEPT ![t] = [pc |-> "refresh", attempt |-> 1,
                                               cached |-> FALSE]]
               /\ starts' = Inc(starts)
               /\ events' = <<>>
               /\ sleeps' = <<>>
          ELSE /\ task' = [task EXCEPT ![t] = [pc |-> "check", attempt |-> 0,
                                               cached |-> FALSE]]
               /\ UNCHANGED <<starts, events, sleeps>>
  /\ UNCHANGED <<timeoutId, lastRefresh, oks, fails, rejected, disposed, session>>
  /\ UNCHANGED <<vars, aux>>

\* A callback that notifies but does not call scheduleNextCheck().
OnSuccessOnce(t) ==
  /\ lastRefresh' = starts
  /\ authenticated' = TRUE
  /\ stored' = TRUE
  /\ oks' = Inc(oks)
  /\ events' = events \o <<"lastRefresh", "onRefresh">>
  /\ task' = [task EXCEPT ![t] = FreeTask]
  /\ UNCHANGED <<timer, sleeps, fails, rejected>>

\* refreshSession resolved: session state and storage are updated; the callback
\* then calls onRefresh() and scheduleNextCheck(), which runs to its first await.
OnSuccess(t) ==
  /\ lastRefresh' = starts
  /\ authenticated' = TRUE
  /\ stored' = TRUE
  /\ oks' = Inc(oks)
  /\ events' = events \o <<"lastRefresh", "onRefresh">>
  /\ task' = [task EXCEPT ![t] = [pc |-> "check", attempt |-> 0, cached |-> TRUE]]
  /\ UNCHANGED <<timer, sleeps, fails, rejected>>

\* refreshSession rejected (handleTokenError, then rethrow): the callback's catch
\* arms the retry and then calls onError.
OnFailure(t) ==
  /\ fails' = Inc(fails)
  /\ task' = [task EXCEPT ![t] = FreeTask]
  /\ IF Resolves("REFRESH_RETRY_DELAY")
     THEN /\ FreshIds # {}
          /\ timer' = [timer EXCEPT ![NewTimer] = RetryTimer]
          /\ events' = events \o <<"failed", "retryArm", "onError">>
          /\ UNCHANGED rejected
     ELSE /\ rejected' = "cycle"
          /\ events' = Append(events, "failed")
          /\ UNCHANGED timer
  /\ UNCHANGED <<lastRefresh, oks, sleeps, authenticated, stored>>

\* One attempt of refreshSession: offline is seen before the first getIdToken(true);
\* a failed attempt sleeps and is repeated until the attempts are used up.
RefreshAttempt(t) ==
  /\ task[t].pc = "refresh"
  /\ \E o \in {"ok", "error"} \cup
              (IF task[t].attempt = 1 THEN {"offline"} ELSE {}) :
       IF o = "ok" THEN OnSuccess(t)
       ELSE IF o = "error" /\ task[t].attempt < TOKEN_REFRESH_ATTEMPTS
       THEN /\ task' = [task EXCEPT ![t].attempt = @ + 1]
            /\ sleeps' = Append(sleeps, Backoff(task[t].attempt))
            /\ UNCHANGED <<timer, events, lastRefresh, oks, fails, rejected,
                           authenticated, stored>>
       ELSE OnFailure(t)
  /\ UNCHANGED <<timeoutId, starts, disposed, signedOut>>
  /\ UNCHANGED <<vars, aux>>

\* The disposer setupSessionRefresh returns: clearTimeout(timeoutId).
Dispose ==
  /\ ~disposed
  /\ disposed' = TRUE
  /\ timer' = IF timeoutId # 0 THEN [timer EXCEPT ![timeoutId] = NoTimer] ELSE timer
  /\ UNCHANGED <<task, timeoutId, sleeps, events, lastRefresh, starts, oks, fails,
                 rejected, session>>
  /\ UNCHANGED <<vars, aux>>

\* signOut of the auth provider: clearSessionState(), then the identity provider's
\* sign-out; the cleanups registered for the user run, the disposer among them.
SignOut ==
  /\ ~signedOut
  /\ signedOut' = TRUE
  /\ authenticated' = FALSE
  /\ stored' = FALSE
  /\ disposed' = TRUE
  /\ timer' = IF timeoutId # 0 THEN [timer EXCEPT ![timeoutId] = NoTimer] ELSE timer
  /\ UNCHANGED <<task, timeoutId, sleeps, events, lastRefresh, starts, oks, fails,
                 rejected>>
  /\ UNCHANGED <<vars, aux>>

\* No provisioning call runs on the client that holds the session.
NoProvisioning ==
  /\ impl = "validation"
  /\ reqEmail = [r \in RequestIds |-> "new@x"]
  /\ reqRole = [r \in RequestIds |-> "team_member"]
  /\ status = [r \in Requests |-> "pending"]
  /\ acct = [e \in Emails |-> "none"]
  /\ users = [u \in Uids |-> NoDoc]
  /\ sales = [u \in Uids |-> FALSE]
  /\ claims = [u \in Uids |-> FALSE]
  /\ revAdmin = [c \in Callers |-> TRUE]
  /\ currentUser = [c \in Callers |-> Reviewer(c)]
  /\ tokenOK = [c \in Callers |-> TRUE]
  /\ call = [c \in Callers |-> Idle]
  /\ result = [c \in Callers |-> NoResult]
  /\ ncalls = 0
  /\ commits = [r \in Requests |-> 0]
  /\ succeeded = [r \in Requests |-> FALSE]

\* setupSessionRefresh has been called: scheduleNextCheck() is awaiting the token.
InitRefresh ==
  /\ NoProvisioning
  /\ task = [t \in Slots |-> IF t = 1 THEN [pc |-> "check", attempt |-> 0,
                                            cached |-> FALSE]
                             ELSE FreeTask]
  /\ timer = [i \in TimerIds |-> NoTimer]
  /\ timeoutId = 0
  /\ sleeps = <<>> /\ events = <<>>
  /\ lastRefresh = 0 /\ starts = 0 /\ oks = 0 /\ fails = 0
  /\ rejected = "none" /\ disposed = FALSE
  /\ authenticated = TRUE /\ stored = TRUE /\ signedOut = FALSE
  /\ AuxIdle

NextRefresh ==
  \/ Dispose
  \/ SignOut
  \/ \E t \in Slots : ScheduleNextCheck(t) \/ TimerFire(t) \/ RefreshAttempt(t)

SpecRefresh == InitRefresh /\ [][NextRefresh]_svars

\* The event loop runs every due timer and continuation, and the provider answers
\* every call within its timeout.
SpecRefreshFair ==
  /\ SpecRefresh
  /\ WF_svars(\E t \in Slots : ScheduleNextCheck(t))
  /\ WF_svars(\E t \in Slots : TimerFire(t))
  /\ WF_svars(\E t \in Slots : RefreshAttempt(t))

\* ------------------------------------- verifyAdminPermissions in detail
\* The caller: not signed in, the privileged email, or another identity.
PermUsers == {"none", "default", "other"}

PermReturn(v) == perm' = [perm EXCEPT !.pc = "done", !.ret = v]

\* Lines 52-59: no current user is answered false.
ResolveStart ==
  /\ perm.pc = "start"
  /\ IF perm.user = "none" THEN PermReturn("false")
     ELSE perm' = [perm EXCEPT !.pc = "token"]
  /\ UNCHANGED <<vars, svars, exist, signin, init, fb, fn>>

\* Lines 79-86, reached once the token is refreshed and the network is there.
DefaultAdminCheck(p) ==
  IF p.user = "default" THEN [p EXCEPT !.pc = "done", !.ret = "true"]
  ELSE [p EXCEPT !.pc = "remote"]

\* Lines 61-69: retry(getIdToken(true)); the new token carries the stored claim.
\* A refresh that fails throws to the outer catch, which answers false.
ForceRefresh ==
  /\ perm.pc = "token"
  /\ \E refreshed \in BOOLEAN :
       LET p == [perm EXCEPT !.calls = @ \cup {"getIdToken"}] IN
       IF ~refreshed
       THEN perm' = [p EXCEPT !.pc = "done", !.ret = "false", !.refreshFailed = TRUE]
       ELSE LET q == [p EXCEPT !.tokenAdmin = p.claimAdmin] IN
            perm' = IF ~q.online THEN [q EXCEPT !.pc = "wait"]
                    ELSE DefaultAdminCheck(q)
  /\ UNCHANGED <<vars, svars, exist, signin, init, fb, fn>>

\* Lines 71-77: waitForNetwork(NETWORK_TIMEOUT) when the flag read at 53 was offline.
WaitNetwork ==
  /\ perm.pc = "wait"
  /\ \E hasNetwork \in BOOLEAN :
       LET p == [perm EXCEPT !.calls = @ \cup {"waitForNetwork"}] IN
       perm' = IF hasNetwork THEN DefaultAdminCheck(p)
               ELSE [p EXCEPT !.pc = "done", !.ret = "false", !.netTimedOut = TRUE]
  /\ UNCHANGED <<vars, svars, exist, signin, init, fb, fn>>

\* The verifyAdmin function: admin by stored claim or by the profile document; a
\* profile that grants admin has the claim set (for the privileged email as well).
VerifyAdminSays(p) == p.claimAdmin \/ p.docRole \in {"admin", "flag"}

\* Lines 88-104: one verifyAdmin call; true is returned at once, an error is logged
\* and the fallback follows.
RemoteVerify ==
  /\ perm.pc = "remote"
  /\ \E answered \in BOOLEAN :
       LET p == [perm EXCEPT !.calls = @ \cup {"verifyAdmin"}] IN
       IF ~answered THEN perm' = [p EXCEPT !.pc = "doc"]
       ELSE IF VerifyAdminSays(p)
       THEN perm' = [p EXCEPT !.claimAdmin = TRUE, !.remoteSaid = TRUE,
                              !.pc = "done", !.ret = "true"]
       ELSE perm' = [p EXCEPT !.pc = "doc"]
  /\ UNCHANGED <<vars, svars, exist, signin, init, fb, fn>>

\* Lines 106-133: the users document of the caller; permission-denied is answered
\* false, another error is thrown to the outer catch, which answers false too.
ProfileFallback ==
  /\ perm.pc = "doc"
  /\ \E o \in {"read", "permission-denied", "error"} :
       LET p == [perm EXCEPT !.calls = @ \cup {"getDoc"}] IN
       IF o = "read"
       THEN perm' = [p EXCEPT !.pc = "done",
                              !.ret = IF p.docRole \in {"admin", "flag"} THEN "true"
                                      ELSE "false"]
       ELSE perm' = [p EXCEPT !.pc = "done", !.ret = "false",
                              !.denied = (o = "permission-denied")]
  /\ UNCHANGED <<vars, svars, exist, signin, init, fb, fn>>

\* A call of verifyAdminPermissions for any caller, claim, profile and network flag.
InitPermissions ==
  /\ NoProvisioning
  /\ SchedulerOff
  /\ ExistenceIdle /\ SignInIdle /\ SessionInitIdle /\ FirebaseIdle /\ FunctionsIdle
  /\ \E u \in PermUsers, on \in BOOLEAN, cached \in BOOLEAN, claim \in BOOLEAN,
        role \in DocRoles :
       perm = [PermIdle EXCEPT !.pc = "start", !.user = u, !.online = on,
                               !.cached = cached, !.tokenAdmin = cached,
                               !.claimAdmin = claim, !.docRole = role]

NextPermissions ==
  \/ ResolveStart
  \/ ForceRefresh
  \/ WaitNetwork
  \/ RemoteVerify
  \/ ProfileFallback

SpecPermissions == InitPermissions /\ [][NextPermissions]_aux

\* -------------------------------------------- checkExistingUser(email)
\* Emails as typed: strings over a letter in both cases and the blank.
Chars == {"a", "A", " "}
RawEmails == UNION {[1..n -> Chars] : n \in 0..MaxLen}

Lower(ch) == IF ch = "A" THEN "a" ELSE ch
toLowerCase(str) == [i \in 1..Len(str) |-> Lower(str[i])]
RECURSIVE trimStart(_)
trimStart(str) ==
  IF str # <<>> /\ Head(str) = " " THEN trimStart(Tail(str)) ELSE str
RECURSIVE trimEnd(_)
trimEnd(str) ==
  IF str # <<>> /\ str[Len(str)] = " " THEN trimEnd(SubSeq(str, 1, Len(str) - 1))
  ELSE str
trim(str) == trimEnd(trimStart(str))

\* An email left as typed.
AsTyped(email) == email
\* email.toLowerCase().trim()
Normalize(email) == trim(toLowerCase(email))

\* The one registered email and which stores hold it; the stores hold normalized
\* emails and are matched exactly.
Registered == {<<"a">>, <<"a", "a">>}
Outages == {"none", "methods", "records", "denied"}

\* checkAuthAccount(email): {exists, uid}.  fetchSignInMethodsForEmail and
\* checkUserRecords are asked with the email normalized once more.
CheckAuthAccount(e, email) ==
  LET key == Normalize(email)
      methods == e.hasAuth /\ key = e.reg
      located == (e.hasUsers \/ e.hasSales) /\ key = e.reg
  IN IF e.down = "methods" THEN [exists |-> FALSE, uid |-> FALSE, asked |-> {<<"methods", key>>}]
     ELSE IF ~methods THEN [exists |-> FALSE, uid |-> FALSE, asked |-> {<<"methods", key>>}]
     ELSE [exists |-> e.down # "records",
           uid |-> e.down = "none" /\ located,
           asked |-> {<<"methods", key>>, <<"records", key>>}]

\* checkExistingUser(email): the report, and every key a store was asked for.
ExistenceReport(e, email) ==
  LET normalizedEmail == Normalize(email)
      authResult == CheckAuthAccount(e, normalizedEmail)
      inUsers == e.hasUsers /\ normalizedEmail = e.reg
      inSales == e.hasSales /\ normalizedEmail = e.reg
  IN [keys |-> authResult.asked \cup {<<"records", normalizedEmail>>},
      report |-> IF e.down \in {"records", "denied"} THEN NoReport
                 ELSE [exists |-> authResult.exists \/ inUsers \/ inSales,
                       auth |-> authResult.exists, authUid |-> authResult.uid,
                       users |-> inUsers, sales |-> inSales]]

ExistenceCheck(i) ==
  /\ ~exist.done[i]
  /\ LET r == ExistenceReport(exist, exist.raw[i]) IN
     exist' = [exist EXCEPT !.done[i] = TRUE, !.keys[i] = r.keys,
                            !.report[i] = r.report]
  /\ UNCHANGED <<vars, svars, perm, signin, init, fb, fn>>

InitExistence ==
  /\ NoProvisioning
  /\ SchedulerOff
  /\ ResolverIdle /\ SignInIdle /\ SessionInitIdle /\ FirebaseIdle /\ FunctionsIdle
  /\ \E r1 \in RawEmails, r2 \in RawEmails, reg \in Registered,
        a \in BOOLEAN, u \in BOOLEAN, s \in BOOLEAN, down \in Outages :
       exist = [ExistIdle EXCEPT !.raw = <<r1, r2>>, !.reg = reg, !.hasAuth = a,
                                 !.hasUsers = u, !.hasSales = s, !.down = down,
                                 !.done = <<FALSE, FALSE>>]

NextExistence == \E i \in {1, 2} : ExistenceCheck(i)

SpecExistence == InitExistence /\ [][NextExistence]_aux

\* -------------------------------------------------------------- signIn
ProfileRoles == {"admin", "regional", "team_member", "manager", "Admin", ""}

\* A role the table maps nowhere but to the landing page of team members.
getRedirectPathLenient(role) ==
  IF role = "admin" THEN "/admin"
  ELSE IF role = "regional" THEN "/regional"
  ELSE "/dashboard"

getRedirectPath(role) ==
  CASE role = "admin" -> "/admin"
    [] role = "regional" -> "/regional"
    [] role = "team_member" -> "/dashboard"
    [] OTHER -> "/login"

SignInThrow(msg) == signin' = [signin EXCEPT !.pc = "done", !.ret = "throw", !.error = msg]

\* Lines 26-35: the auth service and the arguments are checked.
SignInStart ==
  /\ signin.pc = "start"
  /\ \E available \in BOOLEAN :
       IF ~available THEN SignInThrow("service-unavailable")
       ELSE IF ~signin.email \/ ~signin.password THEN SignInThrow("missing-credentials")
       ELSE signin' = [signin EXCEPT !.pc = "authenticate"]
  /\ UNCHANGED <<vars, svars, perm, exist, init, fb, fn>>

\* Lines 37-52: signInWithEmailAndPassword.
Authenticate ==
  /\ signin.pc = "authenticate"
  /\ \E o \in {"ok", "wrong-password", "network"} :
       IF o = "ok" THEN signin' = [signin EXCEPT !.pc = "token"]
       ELSE SignInThrow(o)
  /\ UNCHANGED <<vars, svars, perm, exist, init, fb, fn>>

\* Lines 54-58: the forced getIdTokenResult under retryAuthOperation.
SignInToken ==
  /\ signin.pc = "token"
  /\ \E refreshed \in BOOLEAN :
       IF refreshed THEN signin' = [signin EXCEPT !.pc = "profile"]
       ELSE SignInThrow("token")
  /\ UNCHANGED <<vars, svars, perm, exist, init, fb, fn>>

\* Lines 60-70: loadUserProfile, then the redirect path from the profile's role.
LoadProfile ==
  /\ signin.pc = "profile"
  /\ \E loaded \in BOOLEAN :
       IF ~loaded THEN SignInThrow("profile")
       ELSE IF ~signin.hasProfile THEN SignInThrow("user-not-found")
       ELSE signin' = [signin EXCEPT !.pc = "stamp",
                                     !.redirectPath = getRedirectPath(signin.role)]
  /\ UNCHANGED <<vars, svars, perm, exist, init, fb, fn>>

\* Lines 72-102: lastLoginAt is written if the store allows; the result is returned
\* either way.
StampLogin ==
  /\ signin.pc = "stamp"
  /\ \E written \in BOOLEAN :
       signin' = [signin EXCEPT !.pc = "done", !.ret = "ok", !.stamped = written]
  /\ UNCHANGED <<vars, svars, perm, exist, init, fb, fn>>

InitSignIn ==
  /\ NoProvisioning
  /\ SchedulerOff
  /\ ResolverIdle /\ ExistenceIdle /\ SessionInitIdle /\ FirebaseIdle /\ FunctionsIdle
  /\ \E e \in BOOLEAN, pw \in BOOLEAN, has \in BOOLEAN, role \in ProfileRoles :
       signin = [SignInOff EXCEPT !.pc = "start", !.email = e, !.password = pw,
                                  !.hasProfile = has, !.role = role]

NextSignIn ==
  \/ SignInStart
  \/ Authenticate
  \/ SignInToken
  \/ LoadProfile
  \/ StampLogin

SpecSignIn == InitSignIn /\ [][NextSignIn]_aux

\* ----------------------------------------------- initializeAuthSession
\* clearSessionState(): the session state and its stored copy are cleared.
ClearSessionState == authenticated' = FALSE /\ stored' = FALSE

InitSessionReturn(v) == init' = [init EXCEPT !.pc = "done", !.ret = v]

\* onAuthStateChanged delivers the signed-in user and the callback calls
\* initializeAuthSession(user): the network flag is read, and waited for when offline.
AuthStateChanged ==
  /\ init.pc \in {"idle", "done"}
  /\ init.count < MaxSetups
  /\ \E o \in {"online", "waited", "timeout"} :
       init' = IF o = "timeout"
               THEN [init EXCEPT !.pc = "done", !.ret = "false", !.count = @ + 1]
               ELSE [init EXCEPT !.pc = "token", !.ret = "none", !.count = @ + 1]
  /\ UNCHANGED <<vars, svars, perm, exist, signin, fb, fn>>

\* The forced token refresh under retry; its failure clears the session state.
InitSessionToken ==
  /\ init.pc = "token"
  /\ \E refreshed \in BOOLEAN :
       IF refreshed
       THEN /\ init' = [init EXCEPT !.pc = "validate"]
            /\ UNCHANGED <<authenticated, stored>>
       ELSE /\ InitSessionReturn("false")
            /\ ClearSessionState
  /\ UNCHANGED <<task, timer, timeoutId, sleeps, events, lastRefresh, starts, oks,
                 fails, rejected, disposed, signedOut>>
  /\ UNCHANGED <<vars, perm, exist, signin, fb, fn>>

\* validateSession, then the session is stored and setupSessionRefresh is called:
\* a scheduleNextCheck() of its own starts and runs to its first await.  The
\* disposer it returns is registered and nothing is invoked.
InitSessionValidate ==
  /\ init.pc = "validate"
  /\ \E valid \in BOOLEAN :
       IF valid
       THEN /\ \E t \in Slots :
                 /\ task[t].pc = "free"
                 /\ \A u \in Slots : task[u].pc = "free" => t <= u
                 /\ task' = [task EXCEPT ![t] = [pc |-> "check", attempt |-> 0,
                                                 cached |-> FALSE]]
            /\ stored' = TRUE
            /\ InitSessionReturn("true")
            /\ UNCHANGED authenticated
       ELSE /\ InitSessionReturn("false")
            /\ ClearSessionState
            /\ UNCHANGED task
  /\ UNCHANGED <<timer, timeoutId, sleeps, events, lastRefresh, starts, oks, fails,
                 rejected, disposed, signedOut>>
  /\ UNCHANGED <<vars, perm, exist, signin, fb, fn>>

\* Session setups of one signed-in user, each followed by its scheduler; no
\* disposer is invoked while the user stays signed in.
InitResetup == NoProvisioning /\ SchedulerOff /\ AuxIdle

NextResetup ==
  \/ AuthStateChanged
  \/ InitSessionToken
  \/ InitSessionValidate
  \/ \E t \in Slots : ScheduleNextCheck(t) \/ TimerFire(t) \/ RefreshAttempt(t)

SpecResetup == InitResetup /\ [][NextResetup]_<<svars, aux>>

\* ------------------------------------------- initializeFirebaseServices
\* Lines 148-150: a flight starts: the guard promise is set and the loop entered.
StartFlight(f) ==
  [f EXCEPT !.monitoring = TRUE, !.promise = TRUE, !.flights = @ + 1,
            !.retryCount = 0, !.pc = "loop"]

\* Lines 164-173: a failed attempt is counted; an earlier one sleeps RETRY_DELAY,
\* the last one ends the flight (176-182): initialized is reset, the error is
\* thrown to the callers and finally clears the guard promise.
AttemptFailed(f) ==
  LET g == [f EXCEPT !.retryCount = @ + 1] IN
  IF g.retryCount = MAX_RETRIES
  THEN [g EXCEPT !.initialized = FALSE, !.promise = FALSE, !.flights = @ - 1,
                 !.pc = "idle", !.last = "error"]
  ELSE [g EXCEPT !.pc = "sleep"]

\* Lines 137-186, a call: initialized returns at once, a flight in progress is
\* shared, otherwise a flight is started.
InitializeFirebaseServices ==
  /\ fb.calls < MaxInitCalls
  /\ LET f == [fb EXCEPT !.calls = @ + 1] IN
     fb' = IF f.initialized THEN [f EXCEPT !.atOnce = @ + 1]
           ELSE IF f.promise THEN [f EXCEPT !.shared = @ + 1]
           ELSE StartFlight(f)
  /\ UNCHANGED <<vars, svars, perm, exist, signin, init, fn>>

\* Lines 113-121: the online callback of the network monitoring calls
\* initializeFirebaseServices when nothing is initialized and no flight runs.
OnOnline ==
  /\ fb.monitoring
  /\ fb.calls < MaxInitCalls
  /\ ~fb.initialized /\ ~fb.promise
  /\ fb' = StartFlight([fb EXCEPT !.calls = @ + 1])
  /\ UNCHANGED <<vars, svars, perm, exist, signin, init, fn>>

\* Lines 152-159 with initializeWithTimeout (31-38) and initializeCore (40-108):
\* an attempt waits for the network when offline, then starts initializeCore and
\* the timeout; initializeCore throws when offline or misconfigured, otherwise it
\* sets up the app and awaits enableIndexedDbPersistence.
Attempt ==
  /\ fb.pc = "loop"
  /\ \E o \in {"offline", "config", "started"} :
       fb' = IF o = "started"
             THEN [fb EXCEPT !.cores = @ + 1, !.current = TRUE, !.pc = "race"]
             ELSE AttemptFailed(fb)
  /\ UNCHANGED <<vars, svars, perm, exist, signin, init, fn>>

\* The initializeCore of the current attempt returns before the timeout (a
\* rejection of enableIndexedDbPersistence is caught, 80-86): lines 160-163, 181.
CoreSettles ==
  /\ fb.pc = "race" /\ fb.current
  /\ fb' = [fb EXCEPT !.cores = @ - 1, !.current = FALSE, !.initialized = TRUE,
                      !.retryCount = 0, !.promise = FALSE, !.flights = @ - 1,
                      !.pc = "idle", !.last = "ok"]
  /\ UNCHANGED <<vars, svars, perm, exist, signin, init, fn>>

\* INIT_TIMEOUT elapses first: the race rejects and the attempt has failed; the
\* initializeCore it started is not cancelled and goes on waiting.
Timeout ==
  /\ fb.pc = "race" /\ fb.current
  /\ fb' = AttemptFailed([fb EXCEPT !.current = FALSE])
  /\ UNCHANGED <<vars, svars, perm, exist, signin, init, fn>>

\* An initializeCore left over from a timed-out attempt returns; nothing awaits it.
StaleCoreSettles ==
  /\ fb.cores > (IF fb.current THEN 1 ELSE 0)
  /\ fb' = [fb EXCEPT !.cores = @ - 1]
  /\ UNCHANGED <<vars, svars, perm, exist, signin, init, fn>>

\* Line 173: RETRY_DELAY has passed and the loop goes round.
RetryDelay ==
  /\ fb.pc = "sleep"
  /\ fb' = [fb EXCEPT !.pc = "loop"]
  /\ UNCHANGED <<vars, svars, perm, exist, signin, init, fn>>

InitFirebase == NoProvisioning /\ SchedulerOff /\ AuxIdle

NextFirebase ==
  \/ InitializeFirebaseServices
  \/ OnOnline
  \/ Attempt
  \/ CoreSettles
  \/ Timeout
  \/ StaleCoreSettles
  \/ RetryDelay

SpecFirebase == InitFirebase /\ [][NextFirebase]_aux

\* ------------------------------------- cloud functions (functions/src/auth)

\* catch (error) { throw new HttpsError('internal', ...) }: whatever was thrown
\* inside the try leaves the function as an internal error.
CatchAll(kind) == "internal"

FnDone(c, ret, err) == [c EXCEPT !.pc = "done", !.ret = ret, !.err = err]

\* A callable is invoked: CORS, the preflight answer, and the authentication test
\* that precedes the try (admin.ts 127-139, claims.ts 23-37).
FnInvoke(k) ==
  /\ fn.call[k].pc \in {"free", "done"}
  /\ fn.n < MaxFnCalls
  /\ \E name \in {"verifyAdmin", "setCustomClaims"}, caller \in FnUids \cup {"anon"},
        method \in {"POST", "OPTIONS"}, target \in FnUids, grant \in BOOLEAN,
        valid \in BOOLEAN :
       /\ name = "verifyAdmin" => target = "u1" /\ ~grant /\ valid
       /\ LET c == [FnFree EXCEPT !.name = name, !.caller = caller, !.target = target,
                                  !.grant = grant, !.valid = valid] IN
          fn' = [fn EXCEPT !.n = @ + 1,
                           !.call[k] = IF method = "OPTIONS" THEN FnDone(c, "preflight", "none")
                                       ELSE IF caller = "anon"
                                       THEN FnDone(c, "none", "unauthenticated")
                                       ELSE [c EXCEPT !.pc = "getUser"]]
  /\ UNCHANGED <<vars, svars, perm, exist, signin, init, fb>>

\* admin.auth().getUser(caller): the caller's custom claims are read.  In
\* setCustomClaims the admin test and the input validation follow at once; what
\* they throw is thrown inside the try (claims.ts 39-50, 58-61).
FnGetUser(k) ==
  /\ fn.call[k].pc = "getUser"
  /\ \E read \in BOOLEAN :
       LET c == fn.call[k]
           admin == fn.claims[c.caller] IN
       fn' = [fn EXCEPT !.call[k] =
                IF ~read THEN FnDone(c, "none", CatchAll("unavailable"))
                ELSE IF c.name = "verifyAdmin"
                THEN [c EXCEPT !.sawAdmin = admin, !.checked = TRUE, !.pc = "doc"]
                ELSE IF ~admin
                THEN FnDone([c EXCEPT !.sawAdmin = admin, !.checked = TRUE], "none",
                            CatchAll("permission-denied"))
                ELSE IF ~c.valid
                THEN FnDone([c EXCEPT !.sawAdmin = admin, !.checked = TRUE], "none",
                            CatchAll("invalid-argument"))
                ELSE [c EXCEPT !.sawAdmin = admin, !.checked = TRUE, !.pc = "set"]]
  /\ UNCHANGED <<vars, svars, perm, exist, signin, init, fb>>

\* verifyAdmin, admin.ts 148-199: the caller's users document is read and the
\* answer decided: the configured administrator and a profile that grants admin
\* get their claims set first, claims already read as admin answer true.
FnReadDoc(k) ==
  /\ fn.call[k].pc = "doc"
  /\ \E read \in BOOLEAN :
       LET c == fn.call[k]
           d == fn.doc[c.caller] IN
       fn' = [fn EXCEPT !.call[k] =
                IF ~read THEN FnDone(c, "none", CatchAll("unavailable"))
                ELSE IF d = "default_admin" THEN [c EXCEPT !.target = c.caller,
                                                          !.grant = TRUE, !.pc = "set"]
                ELSE IF c.sawAdmin THEN FnDone(c, "true", "none")
                ELSE IF d \in {"admin", "flag"} THEN [c EXCEPT !.target = c.caller,
                                                               !.grant = TRUE, !.pc = "set"]
                ELSE FnDone(c, "false", "none")]
  /\ UNCHANGED <<vars, svars, perm, exist, signin, init, fb>>

\* admin.auth().setCustomUserClaims(uid, claims), then the answer
\* (admin.ts 155-165, 181-191; claims.ts 52-57).
FnSetClaims(k) ==
  /\ fn.call[k].pc = "set"
  /\ \E written \in BOOLEAN :
       LET c == fn.call[k] IN
       fn' = IF ~written
             THEN [fn EXCEPT !.call[k] = FnDone(c, "none", CatchAll("unavailable"))]
             ELSE [fn EXCEPT !.claims[c.target] = c.grant,
                             !.call[k] = FnDone([c EXCEPT !.wrote = TRUE],
                                                IF c.name = "verifyAdmin" THEN "true"
                                                ELSE "success", "none")]
  /\ UNCHANGED <<vars, svars, perm, exist, signin, init, fb>>

\* Any claims and users documents (missing, a role, the admin flag, or the
\* document whose email is the configured administrator's); no invocation yet.
InitFunctions ==
  /\ NoProvisioning
  /\ SchedulerOff
  /\ ResolverIdle /\ ExistenceIdle /\ SignInIdle /\ SessionInitIdle /\ FirebaseIdle
  /\ \E cl \in [FnUids -> BOOLEAN], d \in [FnUids -> DocRoles \cup {"default_admin"}] :
       fn = [claims |-> cl, doc |-> d, call |-> [k \in FnSlots |-> FnFree], n |-> 0]

NextFunctions ==
  \E k \in FnSlots : FnInvoke(k) \/ FnGetUser(k) \/ FnReadDoc(k) \/ FnSetClaims(k)

SpecFunctions == InitFunctions /\ [][NextFunctions]_aux

\* ------------------------------------------------------------ claims
Approving(c) == call[c].op = "approve"
Returned(c) == call[c].pc = "done"
\* The call passed the admin check and every remote call it made answered.
Clean(c) == Approving(c) /\ Returned(c) /\ call[c].verified /\ ~call[c].fault
\* Requests of an applicant who is not the built-in administrator.
Ordinary == {r \in Requests : reqEmail[r] # DefaultAdminEmail}

\* C1: an approveAuthRequest call started after an approval of the same request
\* returned success returns the AlreadyProcessed failure, whatever accounts or
\* profiles exist for the email by then.
C1_SecondCallAlreadyProcessed ==
  \A c \in Callers :
    (Clean(c) /\ call[c].afterSucc /\ call[c].rid \in Ordinary) =>
      result[c].error = "already-processed"

\* C2: once a request's status is approved or rejected it never changes again.
C2_StatusNeverReverts ==
  [][\A r \in Ordinary : status[r] # "pending" => status'[r] = status[r]]_vars

\* C3: the batch commit is never applied to a request whose status at commit time
\* is approved or rejected.
C3_CommitOnlyWhenPending ==
  [][\A r \in Ordinary : commits'[r] # commits[r] => status[r] = "pending"]_vars

\* C4: a request is approved exactly when the profiles written for it exist, and
\* no request's commit is applied twice.
C4_ExactlyOneCommit ==
  \A r \in Ordinary :
    /\ commits[r] <= 1
    /\ status[r] = "approved" <=> commits[r] = 1
    /\ status[r] = "approved" =>
         /\ UserDocs(reqEmail[r]) # {}
         /\ reqRole[r] = "team_member" => SalesDocs(reqEmail[r]) # {}

\* C5: of two approvals of the same request that both loaded it as pending, at
\* most one returns success.
C5_AtMostOneWinner ==
  \A c, d \in Callers :
    (c # d /\ Clean(c) /\ Clean(d) /\ call[c].rid = call[d].rid
       /\ call[c].rid \in Ordinary
       /\ call[c].sawPending /\ call[d].sawPending) =>
      ~(result[c].success /\ result[d].success)

C7_NeedsConfirmation ==
  \A c \in Callers :
    (Approving(c) /\ Returned(c) /\ call[c].verified /\ call[c].sawAuthOnly
       /\ ~call[c].force /\ (impl = "approval" => call[c].sawPending)) =>
      /\ ~result[c].success /\ ~call[c].wrote
      /\ result[c].existingUser \/ result[c].error \in {"error", "already-processed"}

\* C8: identity account present, no profile, forceContinue set, request pending:
\* the call returns success with the uid of the existing account.
C8_ForceContinueReusesUid ==
  \A c \in Callers :
    (Clean(c) /\ call[c].sawAuthOnly /\ call[c].force /\ call[c].sawPending
       /\ call[c].rid \in Ordinary) =>
      result[c].success /\ result[c].userId = UidOf(call[c].email)

\* C9: identity account creation, claim elevation and the batch commit happen only
\* in a call whose verifyAdminPermissions returned true; a call in which no
\* verification returned true ends in the permission failure with nothing written.
C9_Step ==
  \A c \in Callers :
    (Approving(c) /\ call'[c] # call[c] /\ world' # world) => call[c].verified

C9_Unverified ==
  \A c \in Callers :
    /\ (Approving(c) /\ call[c].wrote) => call[c].verified
    /\ (Approving(c) /\ Returned(c) /\ ~call[c].verified) =>
         ~result[c].success /\ result[c].error = "permission"

C9_MutationOnlyAfterAdminCheck == [][C9_Step /\ C9_Unverified']_vars

\* One call was refused for lack of permission, another passed the check and
\* committed.
C9_Witness ==
  \E c, d \in Callers :
    /\ Approving(c) /\ Returned(c) /\ ~call[c].verified
    /\ result[c].error = "permission"
    /\ Approving(d) /\ Returned(d) /\ call[d].verified /\ call[d].wrote
    /\ result[d].success /\ status[call[d].rid] = "approved"

\* C10: the commit is attempted at most COMMIT_ATTEMPTS times, each attempt after
\* verifyAdminPermissions returned true in that attempt, and a call whose
\* reviewer had lost the admin permission by then commits nothing.
C10_CommitGuarded ==
  \A c \in Callers :
    /\ call[c].pc \in {"a_cverify", "a_commit"} => call[c].tries < COMMIT_ATTEMPTS
    /\ call[c].pc = "a_commit" => call[c].vLoop
    /\ (Approving(c) /\ Returned(c) /\ call[c].revokedAtLoop) => ~result[c].success

\* C11: a call that returns out of the account-creation step (createUser failed,
\* or email-already-in-use with no uid to resolve) returns a failure, has written
\* nothing, and that step changes no account, profile, claim or request status.
CreationSteps ==
  {"v_create", "v_methods", "v_records", "a_create", "a_userdocs", "a_methods"}

C11_CreationFailureWritesNothing ==
  [][\A c \in Callers :
       (call[c].pc \in CreationSteps /\ call'[c].pc = "done") =>
         /\ ~result'[c].success
         /\ ~call'[c].wrote
         /\ world' = world /\ commits' = commits]_vars

\* Account creation failed on an orphaned account: request still pending, no profile.
C11_Witness ==
  \E c \in Callers :
    /\ Approving(c) /\ Returned(c) /\ call[c].sawPending
    /\ result[c].error = "create-failed"
    /\ status[call[c].rid] = "pending"
    /\ UserDocs(call[c].email) = {} /\ SalesDocs(call[c].email) = {}

\* C12: for an email with no account and no profile, an approval by an admin whose
\* remote calls all answer, with no other call started, succeeds and leaves exactly
\* one users document under the returned uid, a salespeople document iff the
\* role is team_member, the admin claim set iff the role is admin, and the
\* request approved.
Fresh(e) ==
  /\ acct[e] # "old"
  /\ \A g \in Gens : g = "old" => users[<<e, g>>] = NoDoc /\ ~sales[<<e, g>>]

C12_FreshApprovalProvisions ==
  \A c \in Callers :
    (ncalls = 1 /\ Clean(c) /\ Fresh(call[c].email) /\ call[c].rid \in Ordinary) =>
      /\ result[c].success
      /\ UserDocs(call[c].email) = {result[c].userId}
      /\ SalesDocs(call[c].email) # {} <=> call[c].role = "team_member"
      /\ claims[result[c].userId] <=> call[c].role = "admin"
      /\ status[call[c].rid] = "approved"

\* C13: of two distinct requests that name the same email, at most one is ever
\* approved.
C13_OneApprovalPerEmail ==
  \A r1, r2 \in Ordinary :
    (r1 # r2 /\ reqEmail[r1] = reqEmail[r2]) =>
      ~(status[r1] = "approved" /\ status[r2] = "approved")

\* C14: a failure result carries an error message, and it carries existingUser
\* only on the needs-confirmation path: account present, no profile, forceContinue
\* unset.  (Stated for a call that ran alone, so the stores are as it saw them.)
C14_ExistingUserOnlyOnConfirmation ==
  \A c \in Callers :
    (ncalls = 1 /\ Approving(c) /\ Returned(c) /\ ~result[c].success) =>
      /\ result[c].error # "none"
      /\ result[c].existingUser =>
           /\ ~call[c].force
           /\ acct[call[c].email] # "none"
           /\ UserDocs(call[c].email) = {} /\ SalesDocs(call[c].email) = {}

\* C15: every profile document approveAuthRequest commits has the uid of the
\* identity account that owns the request's email as its id, for a new account
\* and for a reused one.
C15_ProfileIdIsAccountUid ==
  [][\A c \in Callers :
       (call[c].pc \in {"v_commit", "a_commit"} /\ call'[c].wrote /\ ~call[c].fault
          /\ call[c].rid \in Ordinary) =>
         /\ acct[call[c].email] # "none"
         /\ call[c].userId = UidOf(call[c].email)]_vars

\* C16: rejectAuthRequest on a pending request changes nothing but that request's
\* status, which becomes rejected; on an approved or rejected request it fails as
\* already processed and leaves the status as it was.
Rejecting(c) == call[c].op = "reject" /\ call[c].pc = "r_load" /\ call[c].rid \in Requests
C16_RejectOnlyFlipsStatus ==
  [][\A c \in Callers :
       (Rejecting(c) /\ call'[c].pc = "done") =>
         /\ <<acct, users, sales, claims, commits>>' = <<acct, users, sales, claims, commits>>
         /\ \A r \in Requests : r # call[c].rid => status'[r] = status[r]
         /\ IF status[call[c].rid] = "pending"
            THEN /\ status'[call[c].rid] \in {"pending", "rejected"}
                 /\ result'[c].success <=> status'[call[c].rid] = "rejected"
            ELSE /\ result'[c] = Fail("already-processed")
                 /\ status' = status]_vars
C16_Witness ==
  \E c, d \in Callers :
    /\ call[c].op = "reject" /\ Returned(c) /\ result[c].success
    /\ status[call[c].rid] = "rejected"
    /\ call[d].op = "reject" /\ Returned(d) /\ result[d] = Fail("already-processed")
    /\ call[d].rid = call[c].rid

\* ------------------------------------------------- scheduler claims
Range(seq) == {seq[i] : i \in 1..Len(seq)}
Count(seq, e) == Cardinality({i \in 1..Len(seq) : seq[i] = e})
Checking == {t \in Slots : task[t].pc = "check"}
Refreshing == {t \in Slots : task[t].pc = "refresh"}
\* A next cycle is on its way: a timer is armed or scheduleNextCheck is running.
Scheduled == Armed # {} \/ Checking # {}

\* C17: after a refresh cycle failed with its retries used up, onError has been
\* called exactly once for it and, unless the disposer was invoked, the scheduler
\* is not left stopped: the next cycle is scheduled.
C17_FailedCycleRearms ==
  ("failed" \in Range(events) /\ Len(sleeps) = TOKEN_REFRESH_ATTEMPTS - 1) =>
    /\ Count(events, "onError") = 1
    /\ disposed \/ Scheduled

\* C18: a successful cycle updates lastRefresh, then calls onRefresh once, then
\* recomputes the delay and arms the timer; and while nothing fails and the
\* disposer is not invoked, refresh cycles keep occurring for ever.
Milestones == SelectSeq(events, LAMBDA e : e \in {"lastRefresh", "onRefresh", "arm"})
C18_Order ==
  "lastRefresh" \in Range(events) =>
    /\ lastRefresh = starts
    /\ \/ Milestones = <<"lastRefresh", "onRefresh">> /\ Checking # {}
       \/ /\ Milestones = <<"lastRefresh", "onRefresh", "arm">>
          /\ \A i \in Armed : /\ timer[i].cb = "refresh"
                             /\ \E a \in FreshAges : timer[i].delay = TimeUntilRefresh(a)
          /\ disposed \/ Armed # {}
C18_SuccessKeepsCycling ==
  /\ []C18_Order
  /\ [](~disposed /\ rejected = "none") => []<>(Refreshing # {})
C18_Witness ==
  /\ oks >= 2 /\ ~disposed /\ rejected = "none"
  /\ Milestones = <<"lastRefresh", "onRefresh", "arm">>
  /\ Armed # {}

\* C19: the delays between the attempts of one cycle never decrease, retry timers
\* all carry one delay, and every finished cycle, failed or not, is followed by
\* one more: with N cycles finished, cycle N+1 has started or is scheduled.
NonDecreasing(seq) == \A i \in 1..(Len(seq) - 1) : seq[i] <= seq[i + 1]
C19_RearmsAfterEveryCycle ==
  /\ NonDecreasing(sleeps)
  /\ \A i, j \in Armed :
       (timer[i].cb = "check" /\ timer[j].cb = "check") => timer[i].delay = timer[j].delay
  /\ (~disposed /\ rejected # "check" /\ starts < MaxCycles) =>
       starts + (IF Scheduled THEN 1 ELSE 0) = oks + fails + 1

\* C20: one scheduler never has two refresh attempts in flight nor two timers
\* armed, and a timer is armed only while no cycle is running.
C20_OneCycleAtATime ==
  /\ Cardinality(Refreshing) <= 1
  /\ Cardinality(Armed) <= 1
  /\ Armed # {} => \A t \in Slots : task[t].pc = "free"
C20_Witness ==
  /\ oks >= 1 /\ starts >= 1
  /\ Armed # {} /\ timer[timeoutId].cb = "refresh"
  /\ "arm" \in Range(events)

\* C21: once the disposer has been invoked no timer is armed, no refresh cycle
\* starts and neither onRefresh nor onError is delivered, whatever the scheduler
\* was doing at that moment.
Delivered(seq) == Count(seq, "onRefresh") + Count(seq, "onError")
C21_DisposerStopsScheduler ==
  [][disposed =>
       /\ Armed' \subseteq Armed
       /\ Refreshing' \subseteq Refreshing
       /\ Delivered(events') <= Delivered(events)]_svars

\* C22: once the session has been destroyed by sign-out it stays unauthenticated,
\* and no later cycle of its scheduler writes the durable copy again.
C22_DestroyedSessionStaysCleared ==
  signedOut => ~authenticated /\ ~stored

\* C23: a failure of the scheduler reaches the caller through onError and in no
\* other way: no continuation ends in an uncaught error, and a failed cycle has
\* been reported by onError.
C23_FailuresReachOnError ==
  /\ rejected = "none"
  /\ "failed" \in Range(events) => "onError" \in Range(events)

\* C24: the delay of the refresh timer is max(0, 50 minutes - tokenAge): never
\* negative, never more than 50 minutes, and 0 for a token 50 minutes old or older.
C24_DelayWithinFiftyMinutes ==
  \A i \in Armed :
    timer[i].cb = "refresh" =>
      /\ \E a \in Ages : /\ timer[i].delay = Max(0, 50 * Minute - a)
                         /\ a >= 50 * Minute => timer[i].delay = 0
      /\ timer[i].delay >= 0
      /\ timer[i].delay <= 50 * Minute

\* ------------------------------------------- permission resolver claims
PermDone == perm.pc = "done"

\* C25: for the privileged email verifyAdminPermissions returns true and makes no
\* remote call at all, so no failing remote call can change the answer.
C25_PrivilegedEmailFastPath ==
  (PermDone /\ perm.user = "default") => perm.ret = "true" /\ perm.calls = {}

\* C26: verifyAdminPermissions returns false only if no source grants admin
\* (privileged email, cached claim, remote verification, profile document) or a
\* check was refused with permission-denied.  (Stated for a caller other than the
\* privileged email, whose case is C25.)
Grants(p) ==
  /\ p.user # "none"
  /\ \/ p.user = "default"
     \/ p.cached
     \/ VerifyAdminSays(p)
C26_FalseOnlyWhenNothingGrants ==
  (PermDone /\ perm.ret = "false" /\ perm.user = "other") =>
    ~Grants(perm) \/ perm.denied

\* C27: when the remote verification reports admin, the call returns true with
\* the claim set and the local credential refreshed so that it carries the claim.
C27_ElevationVisibleOnReturn ==
  (PermDone /\ perm.remoteSaid) =>
    perm.ret = "true" /\ perm.claimAdmin /\ perm.tokenAdmin

\* ------------------------------------------------ existence check claims
\* C28: when the identity provider reports sign-in methods for the email, the
\* account check answers exists, with the uid unset when no profile store yields
\* one, whether the profile-store lookup answers, finds nothing or fails.
C28_ProviderAccountAlwaysReported ==
  [][\A c \in Callers :
       (call[c].pc = "chk_uid" /\ call'[c].pc = "chk_rec") =>
         /\ call'[c].cAuth
         /\ (UserDocs(call[c].email) \cup SalesDocs(call[c].email) = {}) =>
              call'[c].cUid = NoUid]_vars

\* C29: two emails that are equal after lowercasing and trimming make
\* checkExistingUser ask the identity provider and the profile stores for the
\* same keys and give the same report.
BothChecked == exist.done = <<TRUE, TRUE>> /\ exist # ExistIdle
C29_NormalizedEmailSameReport ==
  (BothChecked /\ trim(toLowerCase(exist.raw[1])) = trim(toLowerCase(exist.raw[2]))) =>
    /\ exist.keys[1] = exist.keys[2]
    /\ exist.report[1] = exist.report[2]
C29_Witness ==
  /\ BothChecked
  /\ exist.raw[1] # exist.raw[2]
  /\ trim(toLowerCase(exist.raw[1])) = exist.reg
  /\ trim(toLowerCase(exist.raw[2])) = exist.reg
  /\ exist.report[1].auth /\ exist.report[1].users
  /\ exist.report[2] = exist.report[1]

\* ------------------------------------------------------- signIn claims
\* C30: a successful signIn returns the redirect path its profile's role fixes:
\* /admin for admin, /regional for regional, /dashboard for team_member and /login
\* for every other role.
C30_RedirectByRole ==
  (signin.pc = "done" /\ signin.ret = "ok") =>
    /\ signin.role = "admin" => signin.redirectPath = "/admin"
    /\ signin.role = "regional" => signin.redirectPath = "/regional"
    /\ signin.role = "team_member" => signin.redirectPath = "/dashboard"
    /\ signin.role \notin {"admin", "regional", "team_member"} =>
         signin.redirectPath = "/login"
C30_Witness ==
  /\ signin.pc = "done" /\ signin.ret = "ok"
  /\ signin.role = "manager" /\ signin.redirectPath = "/login"
  /\ ~signin.stamped

\* ------------------------------------------ approval.ts, further claims
\* C31: every approveAuthRequest call of approval.ts ends with an ApprovalResult:
\* the permission loop makes at most 3 attempts, the commit loop at most 5, and a
\* call in progress always reaches its return.
InApproval(c) == Approving(c) /\ call[c].pc \in
  {"a_verify", "load", "a_create", "a_userdocs", "a_methods", "a_claims", "a_cverify",
   "a_commit"}
C31_Bounded ==
  \A c \in Callers :
    /\ call[c].pc = "a_verify" => call[c].tries < VERIFY_ATTEMPTS
    /\ call[c].pc \in {"a_cverify", "a_commit"} => call[c].tries < COMMIT_ATTEMPTS
    /\ (Approving(c) /\ Returned(c)) => result[c] # NoResult
ClaimAhead(u) ==
  /\ claims[u]
  /\ users[u] = NoDoc
  /\ \E r \in Requests : reqEmail[r] = EmailOf(u) /\ status[r] = "pending"
C34_ReviewerIdentityKept ==
  [][\A c \in Callers :
       (InApproval(c) /\ call[c].rid \in Ordinary
          /\ call'[c].pc \in {"a_cverify", "a_commit"}) =>
         currentUser'[c] = currentUser[c]]_vars

\* C35: a validation.ts approval one of whose existence lookups failed with an
\* error creates no identity account and writes no profile.
LookupFailed(c) ==
  /\ Approving(c) /\ call[c].rid \in Ordinary /\ ~call[c].force
  /\ call[c].pc \in {"v_create", "v_commit"}
  /\ call[c].fault
C35_FailedLookupNotFree ==
  [][\A c \in Callers :
       (LookupFailed(c) /\ call'[c] # call[c]) =>
         acct' = acct /\ users' = users /\ sales' = sales]_vars

\* ------------------------------------------------ repeated session setup
\* C36: however often the session of one signed-in user is set up, at most one
\* refresh timer is armed and at most one refresh is in flight.
C36_OneSchedulerPerIdentity ==
  /\ Cardinality(Armed) <= 1
  /\ Cardinality(Refreshing) <= 1

\* ------------------------------------------- initializeFirebaseServices
\* C37: initializeFirebaseServices is single-flight: at most one flight and at
\* most one initializeCore run at a time, the guard promise is set exactly while a
\* flight runs, and once initialized no call starts a flight.
C37_SingleFlight ==
  /\ fb.flights <= 1
  /\ fb.cores <= 1
  /\ fb.promise <=> fb.pc # "idle"
  /\ fb.initialized => fb.pc = "idle"

\* ------------------------------------- verifyAdminPermissions, further
\* C32: a caller whose cached admin claim is true is answered true without the
\* remote verifyAdmin call and without the profile document being read.
C32_CachedClaimShortCircuits ==
  (PermDone /\ perm.user = "other" /\ perm.cached
     /\ ~perm.refreshFailed /\ ~perm.netTimedOut) =>
    /\ perm.ret = "true"
    /\ perm.calls \cap {"verifyAdmin", "getDoc"} = {}

\* ------------------------------------------------ cloud function claims
\* C38: when verifyAdmin returns isAdmin true the caller's custom claims have
\* admin true at that moment, and when it returns isAdmin false it has written no
\* claims.
Returns(k, name) ==
  /\ fn.call[k].pc \notin {"free", "done"}
  /\ fn'.call[k].pc = "done"
  /\ fn'.call[k].name = name
C38_AnswerMatchesClaims ==
  [][\A k \in FnSlots :
       Returns(k, "verifyAdmin") =>
         /\ fn'.call[k].ret = "true" => fn'.claims[fn'.call[k].caller]
         /\ fn'.call[k].ret = "false" => ~fn'.call[k].wrote]_aux

\* C39: setCustomClaims writes claims only for an authenticated caller whose own
\* claims were read as admin; an unauthenticated caller is answered
\* unauthenticated and a caller without the admin claim permission-denied, and
\* for neither is anything written.
C39_OnlyAdminsSetClaims ==
  \A k \in FnSlots :
    (fn.call[k].name = "setCustomClaims" /\ fn.call[k].pc = "done"
       /\ fn.call[k].ret # "preflight") =>
      /\ fn.call[k].wrote => fn.call[k].caller # "anon" /\ fn.call[k].sawAdmin
      /\ fn.call[k].caller = "anon" =>
           fn.call[k].err = "unauthenticated" /\ ~fn.call[k].wrote
      /\ (fn.call[k].checked /\ ~fn.call[k].sawAdmin) =>
           fn.call[k].err = "permission-denied" /\ ~fn.call[k].wrote

====
